---- MODULE Spec2Model ----
(***************************************************************************)
(* The mesh routing core of must-hop: the network manager                  *)
(* (must-hop/src/node/network_manager.rs), the routing policy              *)
(* (must-hop/src/node/policy.rs) and the mesh router                       *)
(* (must-hop/src/node/mesh_router.rs), run over the simulated air of       *)
(* must-hop/tests/multiple_node_network_simulation.rs.                     *)
(***************************************************************************)
EXTENDS Naturals, Integers, Sequences, FiniteSets, TLC

\* ------------------------------------------------------------------------
\* Bounds of the model
\* ------------------------------------------------------------------------
\* const generic LEN: capacity of the pending table, of every batch and of
\* the recent-seen ring
LEN == 2
\* Instant::now() is read in whole seconds, 0..MaxTime
MaxTime == 3
\* packet ids a node allocates in the single-manager specifications
MaxSends == 5
\* packet ids the manager allocates while it is fed received batches
MaxMint == 1
\* packet ids a node allocates in the network specifications
MaxNetSends == 2
\* frames waiting in one simulated inbox
MaxInbox == 4
\* timeout (seconds) handed to NetworkManager::new
TimeoutSecs == 1
MaxCalls == 260
MaxPushes == 4

\* ------------------------------------------------------------------------
\* Program constants
\* ------------------------------------------------------------------------
\* max_retries handed to NetworkManager::new
MaxRetries == 3
U8Max == 255
U16Max == 65535
\* gw_hops of a fresh manager: "unknown"
UnknownHops == 255
\* reserved identities
BroadcastId == 0
GatewayId == 1

\* The three nodes of the simulated networks; Me is the manager the
\* single-manager specifications drive.
NodeA == 1
NodeB == 2
NodeC == 3
NodeD == 4
Nodes == {NodeA, NodeB, NodeC}
Me == NodeB

\* recent_seen holds Option<(u8, u16)>
None == <<>>

\* ------------------------------------------------------------------------
\* Packet model
\* ------------------------------------------------------------------------
MHPacket(dst, ty, pid, src, payload, hops, togw) ==
    [destination_id |-> dst, packet_type |-> ty, packet_id |-> pid,
     source_id |-> src, payload |-> payload, hop_count |-> hops,
     hop_to_gw |-> togw]

Pid(pkt) == <<pkt.source_id, pkt.packet_id>>

\* ------------------------------------------------------------------------
\* RecentSeen<N>
\* ------------------------------------------------------------------------
RecentSeenNew == [buffer |-> [i \in 1..LEN |-> None], cursor |-> 0]

\* faulty variant: the cursor stays where it is
RecentSeenPush_NoAdvance(rs, pid) ==
    [buffer |-> [rs.buffer EXCEPT ![rs.cursor + 1] = pid],
     cursor |-> rs.cursor]

RecentSeenPush(rs, pid) ==
    [buffer |-> [rs.buffer EXCEPT ![rs.cursor + 1] = pid],
     cursor |-> (rs.cursor + 1) % LEN]

\* faulty variant: the scan never finds the pair
RecentSeenContains_Never(rs, pid) == FALSE

RecentSeenContains(rs, pid) == \E i \in 1..LEN : rs.buffer[i] = pid

\* ------------------------------------------------------------------------
\* NetworkManager
\* ------------------------------------------------------------------------
NetworkManagerNew(source_id, timeout, max_retries) ==
    [pending_acks |-> <<>>, next_packet_id |-> 0,
     recent_seen |-> RecentSeenNew, gw_hops |-> UnknownHops,
     source_id |-> source_id, timeout |-> timeout,
     max_retries |-> max_retries]

\* `+= 1` on a u8 or a u16 in a build without overflow checks (release)
WrapU8(x) == x % (U8Max + 1)
WrapU16(x) == x % (U16Max + 1)

\* faulty variant: the frame carries the id of the previous allocation
NewPacket_StaleId(m, payload, destination) ==
    MHPacket(destination, "Data", m.next_packet_id, m.source_id,
             payload, 0, m.gw_hops)

\* new_packet: the frame minted; the caller advances next_packet_id
NewPacket(m, payload, destination) ==
    MHPacket(destination, "Data", WrapU16(m.next_packet_id + 1), m.source_id,
             payload, 0, m.gw_hops)

\* the retain predicate of payload_to_send
RetainPending(m, p, curr_time) ==
    p.retries < m.max_retries \/ p.timeout < curr_time

\* faulty variant: no entry is ever due
TimedOut_Never(p, curr_time) == FALSE

\* faulty variant: an entry is due as soon as its deadline is reached
TimedOut_Inclusive(p, curr_time) == p.timeout <= curr_time

\* the filter predicate of payload_to_send
TimedOut(p, curr_time) == p.timeout < curr_time

\* add_packet: Err(BufferFull) when the table is full
AddPacketFails(m) == Len(m.pending_acks) >= LEN

AddPacket(m, packet, curr_time) ==
    [m EXCEPT !.pending_acks =
        Append(@, [packet |-> packet,
                   timeout |-> curr_time + m.timeout,
                   retries |-> 0])]

\* payload_to_send: [m |-> manager after, res |-> "Ok" | "BufferFull",
\*                   to_send |-> the batch (of an Ok), new_pkt |-> minted frame]
PayloadToSend(m, payload, destination, curr_time) ==
    LET Keep(p) == RetainPending(m, p, curr_time)
        kept == SelectSeq(m.pending_acks, Keep)
        Due(p) == TimedOut(p, curr_time)
        bumped == [i \in 1..Len(kept) |->
                     IF Due(kept[i])
                     THEN [kept[i] EXCEPT !.retries = WrapU8(@ + 1)]
                     ELSE kept[i]]
        dueSeq == SelectSeq(kept, Due)
        resend == [i \in 1..Len(dueSeq) |-> dueSeq[i].packet]
        m1 == [m EXCEPT !.pending_acks = bumped]
        new_pkt == NewPacket(m1, payload, destination)
        m2 == [m1 EXCEPT !.next_packet_id = WrapU16(@ + 1)]
    IN  IF Len(resend) >= LEN
        THEN \* to_send.push fails: logged, the frame is not added
             [m |-> m2, res |-> "Ok", to_send |-> resend, new_pkt |-> new_pkt]
        ELSE IF AddPacketFails(m2)
        THEN [m |-> m2, res |-> "BufferFull", to_send |-> <<>>,
              new_pkt |-> new_pkt]
        ELSE [m |-> AddPacket(m2, new_pkt, curr_time), res |-> "Ok",
              to_send |-> Append(resend, new_pkt), new_pkt |-> new_pkt]

\* payload_to_send in a build with overflow checks (debug): `p.retries += 1`
\* on a due entry at 255, or `next_packet_id += 1` at 65535, panics
PayloadToSendOverflows(m, curr_time) ==
    \/ \E i \in 1..Len(m.pending_acks) :
          /\ RetainPending(m, m.pending_acks[i], curr_time)
          /\ TimedOut(m.pending_acks[i], curr_time)
          /\ m.pending_acks[i].retries = U8Max
    \/ m.next_packet_id = U16Max

\* ---- receive_packet ----------------------------------------------------
\* faulty variant: every beacon is accepted
BootUpDiscarded_Never(m, pkt) == FALSE

\* a BootUp beacon that does not advertise a shorter route is discarded
BootUpDiscarded(m, pkt) == pkt.hop_count >= m.gw_hops

\* faulty variant: only a copy from the same source acknowledges an entry
IsOurPacket_SourceOnly(p, pkt) ==
    /\ p.packet.packet_id = pkt.packet_id
    /\ p.packet.source_id = pkt.source_id

\* the position() predicate: is pkt an acknowledgement of pending entry p
IsOurPacket(p, pkt) ==
    /\ p.packet.packet_id = pkt.packet_id
    /\ \/ p.packet.source_id = pkt.source_id
       \/ /\ pkt.packet_type = "Ack"
          /\ pkt.destination_id = p.packet.source_id

\* index of the first pending entry pkt acknowledges, 0 when there is none
OurPacketIndex(m, pkt) ==
    LET hits == {i \in 1..Len(m.pending_acks) :
                    IsOurPacket(m.pending_acks[i], pkt)}
    IN  IF hits = {} THEN 0
        ELSE CHOOSE i \in hits : \A j \in hits : i <= j

\* Vec::remove(index)
RemoveAt(s, k) ==
    [i \in 1..(Len(s) - 1) |-> IF i < k THEN s[i] ELSE s[i + 1]]

Min(a, b) == IF a <= b THEN a ELSE b
Max(a, b) == IF a >= b THEN a ELSE b

\* faulty variant: a node as far from the gateway as the sender forwards too
ShouldForward_NotFarther(m, pkt) ==
    IF pkt.destination_id = GatewayId
    THEN m.gw_hops <= pkt.hop_to_gw
    ELSE /\ Min(pkt.source_id, pkt.destination_id) <= m.source_id
         /\ m.source_id <= Max(pkt.destination_id, pkt.source_id)

\* faulty variant: the lower end of the path is not looked at
ShouldForward_BelowPath(m, pkt) ==
    IF pkt.destination_id = GatewayId
    THEN m.gw_hops < pkt.hop_to_gw
    ELSE m.source_id <= Max(pkt.destination_id, pkt.source_id)

\* should_forward
ShouldForward(m, pkt) ==
    IF pkt.destination_id = GatewayId
    THEN m.gw_hops < pkt.hop_to_gw
    ELSE /\ Min(pkt.source_id, pkt.destination_id) <= m.source_id
         /\ m.source_id <= Max(pkt.destination_id, pkt.source_id)

\* The answer of receive_packet is
\*   [m |-> manager after, res |-> "None" | "Some" | "BufferFull",
\*    pkt |-> the frame handed back, ptype |-> its PayloadType,
\*    why |-> the branch of receive_packet that answered]
Answer(m, res, pkt, ptype, why) ==
    [m |-> m, res |-> res, pkt |-> pkt, ptype |-> ptype, why |-> why]

\* faulty variant: a duplicate is dropped without an ACK
DuplicateResult_Silent(m, pkt) ==
    Answer(m, "None", pkt, "none", "ack_of_ack")

\* faulty variant: every duplicate is ACKed, an Ack frame too
DuplicateResult_AckAll(m, pkt) ==
    Answer(m, "Some", pkt, "ACK", "duplicate")

\* a frame already in recent_seen: Ack frames are dropped, others are ACKed
DuplicateResult(m, pkt) ==
    IF pkt.packet_type = "Ack"
    THEN Answer(m, "None", pkt, "none", "ack_of_ack")
    ELSE Answer(m, "Some", pkt, "ACK", "duplicate")

\* faulty variant: a frame addressed to this node is not handed back
FirstSight_NotForUs(m, pkt, curr_time) ==
    IF pkt.destination_id # m.source_id
    THEN IF ~ShouldForward(m, pkt)
         THEN Answer(m, "None", pkt, "none", "not_in_path")
         ELSE LET increased_gw_hops == [pkt EXCEPT !.hop_to_gw = m.gw_hops]
              IN  IF AddPacketFails(m)
                  THEN Answer(m, "BufferFull", pkt, "none", "table_full")
                  ELSE Answer(AddPacket(m, increased_gw_hops, curr_time),
                              "Some", increased_gw_hops, "Data", "forward")
    ELSE Answer(m, "None", pkt, "none", "not_in_path")

\* faulty variant: a frame this node is not on the path of is dropped, but
\* an entry is made for it
FirstSight_EntryWithoutForward(m, pkt, curr_time) ==
    IF pkt.destination_id # m.source_id
    THEN IF ~ShouldForward(m, pkt)
         THEN IF AddPacketFails(m)
              THEN Answer(m, "None", pkt, "none", "not_in_path")
              ELSE Answer(AddPacket(m, pkt, curr_time),
                          "None", pkt, "none", "not_in_path")
         ELSE LET increased_gw_hops == [pkt EXCEPT !.hop_to_gw = m.gw_hops]
              IN  IF AddPacketFails(m)
                  THEN Answer(m, "BufferFull", pkt, "none", "table_full")
                  ELSE Answer(AddPacket(m, increased_gw_hops, curr_time),
                              "Some", increased_gw_hops, "Data", "forward")
    ELSE Answer(m, "Some", pkt, "Command", "for_us")

\* faulty variant: a frame for this node is handed back as one to send on
FirstSight_ForUsAsData(m, pkt, curr_time) ==
    IF pkt.destination_id # m.source_id
    THEN IF ~ShouldForward(m, pkt)
         THEN Answer(m, "None", pkt, "none", "not_in_path")
         ELSE LET increased_gw_hops == [pkt EXCEPT !.hop_to_gw = m.gw_hops]
              IN  IF AddPacketFails(m)
                  THEN Answer(m, "BufferFull", pkt, "none", "table_full")
                  ELSE Answer(AddPacket(m, increased_gw_hops, curr_time),
                              "Some", increased_gw_hops, "Data", "forward")
    ELSE Answer(m, "Some", pkt, "Data", "for_us")

\* a frame seen for the first time (already pushed into recent_seen of m)
FirstSight(m, pkt, curr_time) ==
    IF pkt.destination_id # m.source_id
    THEN IF ~ShouldForward(m, pkt)
         THEN Answer(m, "None", pkt, "none", "not_in_path")
         ELSE LET increased_gw_hops == [pkt EXCEPT !.hop_to_gw = m.gw_hops]
              IN  IF AddPacketFails(m)
                  THEN Answer(m, "BufferFull", pkt, "none", "table_full")
                  ELSE Answer(AddPacket(m, increased_gw_hops, curr_time),
                              "Some", increased_gw_hops, "Data", "forward")
    ELSE Answer(m, "Some", pkt, "Command", "for_us")

\* faulty variant: a beacon's hop count is taken over as it was received
ReceivePacket_HopsAsReceived(m, pkt, curr_time) ==
    IF pkt.packet_type = "BootUp"
    THEN IF BootUpDiscarded(m, pkt)
         THEN Answer(m, "None", pkt, "none", "bootup_discarded")
         ELSE Answer([m EXCEPT !.gw_hops = pkt.hop_count,
                               !.recent_seen = RecentSeenPush(@, Pid(pkt))],
                     "Some", pkt, "Bootup", "bootup")
    ELSE IF OurPacketIndex(m, pkt) # 0
    THEN Answer([m EXCEPT !.pending_acks =
                    RemoveAt(@, OurPacketIndex(m, pkt))],
                "None", pkt, "none", "known")
    ELSE IF RecentSeenContains(m.recent_seen, Pid(pkt))
    THEN DuplicateResult(m, pkt)
    ELSE FirstSight([m EXCEPT !.recent_seen = RecentSeenPush(@, Pid(pkt))],
                    pkt, curr_time)

\* NetworkManager::receive_packet
ReceivePacket(m, pkt, curr_time) ==
    IF pkt.packet_type = "BootUp"
    THEN IF BootUpDiscarded(m, pkt)
         THEN Answer(m, "None", pkt, "none", "bootup_discarded")
         ELSE Answer([m EXCEPT !.gw_hops = pkt.hop_count + 1,
                               !.recent_seen = RecentSeenPush(@, Pid(pkt))],
                     "Some", pkt, "Bootup", "bootup")
    ELSE IF OurPacketIndex(m, pkt) # 0
    THEN Answer([m EXCEPT !.pending_acks =
                    RemoveAt(@, OurPacketIndex(m, pkt))],
                "None", pkt, "none", "known")
    ELSE IF RecentSeenContains(m.recent_seen, Pid(pkt))
    THEN DuplicateResult(m, pkt)
    ELSE FirstSight([m EXCEPT !.recent_seen = RecentSeenPush(@, Pid(pkt))],
                    pkt, curr_time)

\* ---- handle_packets ----------------------------------------------------
\* the frame handle_packets appends for a disposition
\* faulty variant: the ACK goes to the frame's destination, not its source
AckFor_ToDestination(m, packet) ==
    MHPacket(packet.destination_id, "Ack", packet.packet_id, m.source_id,
             <<0>>, 0, m.gw_hops)

\* the ACK disposition of handle_packets
AckFor(m, packet) ==
    MHPacket(packet.source_id, "Ack", packet.packet_id, m.source_id,
             <<0>>, 0, m.gw_hops)

\* faulty variant: the relay repeats the hop count it received
BootUpRelay_SameHops(m, packet) ==
    MHPacket(packet.destination_id, "BootUp", packet.packet_id, m.source_id,
             <<0>>, packet.hop_count, m.gw_hops)

\* the Bootup disposition of handle_packets
BootUpRelay(m, packet) ==
    MHPacket(packet.destination_id, "BootUp", packet.packet_id, m.source_id,
             <<0>>, packet.hop_count + 1, m.gw_hops)

\* faulty variant: an error of receive_packet ends the whole turn
HandleOne_Aborting(acc, pkt, curr_time) ==
    IF acc.res # "Ok" THEN acc
    ELSE
    LET r == ReceivePacket(acc.m, pkt, curr_time)
        acc1 == [acc EXCEPT !.m = r.m, !.why = Append(@, r.why)]
    IN  IF r.res = "BufferFull" THEN [acc1 EXCEPT !.res = "BufferFull"]
        ELSE IF r.res # "Some" THEN acc1
        ELSE IF r.ptype = "Command"
        THEN IF Len(acc1.commands) >= LEN
             THEN [acc1 EXCEPT !.res = "BufferFull"]
             ELSE [acc1 EXCEPT !.commands = Append(@, r.pkt)]
        ELSE IF Len(acc1.to_send) >= LEN
        THEN [acc1 EXCEPT !.res = "BufferFull"]
        ELSE [acc1 EXCEPT !.to_send = Append(@,
                CASE r.ptype = "Data" -> r.pkt
                  [] r.ptype = "ACK" -> AckFor(r.m, r.pkt)
                  [] r.ptype = "Bootup" -> BootUpRelay(r.m, r.pkt))]

\* one turn of the for loop, on the accumulator
\* [m, to_send, commands, res, why]; why lists, per frame processed, the
\* branch of receive_packet that answered
HandleOne(acc, pkt, curr_time) ==
    IF acc.res # "Ok" THEN acc
    ELSE
    LET r == ReceivePacket(acc.m, pkt, curr_time)
        acc1 == [acc EXCEPT !.m = r.m, !.why = Append(@, r.why)]
    IN  IF r.res # "Some" THEN acc1
        ELSE IF r.ptype = "Command"
        THEN IF Len(acc1.commands) >= LEN
             THEN [acc1 EXCEPT !.res = "BufferFull"]
             ELSE [acc1 EXCEPT !.commands = Append(@, r.pkt)]
        ELSE IF Len(acc1.to_send) >= LEN
        THEN [acc1 EXCEPT !.res = "BufferFull"]
        ELSE [acc1 EXCEPT !.to_send = Append(@,
                CASE r.ptype = "Data" -> r.pkt
                  [] r.ptype = "ACK" -> AckFor(r.m, r.pkt)
                  [] r.ptype = "Bootup" -> BootUpRelay(r.m, r.pkt))]

\* faulty variant: the batch is walked from its last frame to its first
RECURSIVE HandleFrom_Backwards(_, _, _, _)
HandleFrom_Backwards(acc, pkts, i, curr_time) ==
    IF i > Len(pkts) THEN acc
    ELSE HandleOne(HandleFrom_Backwards(acc, pkts, i + 1, curr_time),
                   pkts[i], curr_time)

\* the for loop of handle_packets, from frame i on
RECURSIVE HandleFrom(_, _, _, _)
HandleFrom(acc, pkts, i, curr_time) ==
    IF i > Len(pkts) THEN acc
    ELSE HandleFrom(HandleOne(acc, pkts[i], curr_time), pkts, i + 1,
                    curr_time)

\* faulty variant: the turn also bumps and re-emits the entries that are due
HandlePackets_Resending(m, pkts, curr_time) ==
    LET r == HandleFrom([m |-> m, to_send |-> <<>>, commands |-> <<>>,
                         res |-> "Ok", why |-> <<>>], pkts, 1, curr_time)
        Due(p) == TimedOut(p, curr_time)
        due == SelectSeq(r.m.pending_acks, Due)
        room == Min(Len(due), LEN - Len(r.to_send))
    IN  [r EXCEPT
           !.to_send = @ \o [i \in 1..room |-> due[i].packet],
           !.m.pending_acks =
              [i \in 1..Len(@) |->
                 IF Due(@[i]) THEN [@[i] EXCEPT !.retries = @ + 1] ELSE @[i]]]

\* handle_packets: [m, to_send, commands, res |-> "Ok" | "BufferFull", why]
HandlePackets(m, pkts, curr_time) ==
    HandleFrom([m |-> m, to_send |-> <<>>, commands |-> <<>>, res |-> "Ok",
                why |-> <<>>], pkts, 1, curr_time)

\* handle_bootup: the beacon minted; the caller advances next_packet_id
HandleBootup(m) ==
    MHPacket(BroadcastId, "BootUp", WrapU16(m.next_packet_id + 1), m.source_id,
             <<>>, 0, 0)

\* ---- GatewayPolicy ------------------------------------------------------
\* the filter closure of GatewayPolicy::process_packets
GatewayFilter(pkt) == pkt.packet_type # "Ack" /\ pkt.source_id # 0

\* faulty variant: the ACK is addressed to the frame's destination
GatewayAckFor_ToDestination(pkt) ==
    MHPacket(pkt.destination_id, "Ack", pkt.packet_id, pkt.destination_id,
             <<>>, 0, 0)

\* the map closure of GatewayPolicy::process_packets
GatewayAckFor(pkt) ==
    MHPacket(pkt.source_id, "Ack", pkt.packet_id, pkt.destination_id,
             <<>>, 0, 0)

\* faulty variant: the Ack frames of the batch are kept from the application
GatewayToApp_WithoutAcks(pkts) ==
    LET NotAck(pkt) == pkt.packet_type # "Ack"
    IN  SelectSeq(pkts, NotAck)

\* the second component of the result: the batch as received
GatewayToApp(pkts) == pkts

\* GatewayPolicy::process_packets: the manager is not used
GatewayProcess(m, pkts) ==
    LET kept == SelectSeq(pkts, GatewayFilter)
    IN  [m |-> m, res |-> "Ok",
         to_send |-> [i \in 1..Len(kept) |-> GatewayAckFor(kept[i])],
         commands |-> GatewayToApp(pkts), why |-> <<>>]

\* ------------------------------------------------------------------------
\* State
\* ------------------------------------------------------------------------
VARIABLES
    nm,        \* nm[n]: the NetworkManager the router of node n owns
    inbox,     \* inbox[n]: frames on the air for node n (SimulationEnv.inboxes)
    topology,  \* topology[n]: the nodes that hear n (SimulationEnv.topology)
    now,       \* Instant::now(), in seconds
    out,       \* the last step: the call made and what it returned
    app        \* app[n]: what the application of n was handed so far

vars == <<nm, inbox, topology, now, out, app>>

NoTopology == [n \in Nodes |-> {}]
Line == [n \in Nodes |-> {k \in Nodes : k - n \in {-1, 1}}]
Pair == [n \in Nodes |-> IF n = NodeA THEN {NodeB}
                          ELSE IF n = NodeB THEN {NodeA} ELSE {}]

\* app[n] = [once |-> pids handed over, again |-> pids handed over again]
Delivered(a, pkts) ==
    LET pids == {Pid(pkts[i]) : i \in 1..Len(pkts)}
        twice == {Pid(pkts[i]) : i \in {j \in 1..Len(pkts) :
                     \E k \in 1..(j - 1) : Pid(pkts[k]) = Pid(pkts[j])}}
    IN  [once |-> a.once \cup pids,
         again |-> a.again \cup (a.once \cap pids) \cup twice]

InitWith(topo) ==
    /\ nm = [n \in Nodes |-> NetworkManagerNew(n, TimeoutSecs, MaxRetries)]
    /\ inbox = [n \in Nodes |-> <<>>]
    /\ topology = topo
    /\ now = 0
    /\ out = [op |-> "new", node |-> 0, res |-> "Ok", pkts |-> <<>>,
              to_send |-> <<>>, to_app |-> <<>>, why |-> <<>>]
    /\ app = [n \in Nodes |-> [once |-> {}, again |-> {}]]

\* MockRadio::transmit: every node in range gets a copy of every frame
Transmit(box, n, pkts) ==
    [k \in Nodes |-> IF k \in topology[n] THEN box[k] \o pkts ELSE box[k]]

AirHasRoom(n, pkts) ==
    \A k \in topology[n] : Len(inbox[k]) + Len(pkts) <= MaxInbox

\* ------------------------------------------------------------------------
\* Operations
\* ------------------------------------------------------------------------
\* MeshRouter::send_payload
SendPayload(n, payload, destination) ==
    \E r \in {PayloadToSend(nm[n], payload, destination, now)} :
        /\ AirHasRoom(n, r.to_send)
        /\ nm' = [nm EXCEPT ![n] = r.m]
        /\ inbox' = IF r.res = "Ok" THEN Transmit(inbox, n, r.to_send)
                    ELSE inbox
        /\ out' = [op |-> "send_payload", node |-> n, res |-> r.res,
                   pkts |-> <<>>, to_send |-> r.to_send, to_app |-> <<>>, why |-> <<>>]
        /\ UNCHANGED <<topology, now, app>>

\* NodePolicy::process_packets on a batch handed in by the caller
ProcessPackets(n, pkts) ==
    \E r \in {HandlePackets(nm[n], pkts, now)} :
        /\ nm' = [nm EXCEPT ![n] = r.m]
        /\ out' = [op |-> "process_packets", node |-> n, res |-> r.res,
                   pkts |-> pkts,
                   to_send |-> IF r.res = "Ok" THEN r.to_send ELSE <<>>,
                   to_app |-> IF r.res = "Ok" THEN r.commands ELSE <<>>,
                   why |-> r.why]
        /\ UNCHANGED <<inbox, topology, now, app>>

\* GatewayPolicy::process_packets on a batch handed in by the caller
GatewayProcessPackets(n, pkts) ==
    \E r \in {GatewayProcess(nm[n], pkts)} :
        /\ nm' = [nm EXCEPT ![n] = r.m]
        /\ out' = [op |-> "gateway_process_packets", node |-> n,
                   res |-> r.res, pkts |-> pkts, to_send |-> r.to_send,
                   to_app |-> r.commands, why |-> r.why]
        /\ UNCHANGED <<inbox, topology, now, app>>

\* MockRadio::receive: up to LEN frames from the front of the inbox
RadioReceive(box) == SubSeq(box, 1, Min(Len(box), LEN))

\* faulty variant: the outbound batch is transmitted a second time
Receive_TransmitTwice(n) ==
    \E pkts \in {RadioReceive(inbox[n])} :
    \E r \in {HandlePackets(nm[n], pkts, now)} :
    \E sent \in {IF r.res = "Ok" THEN r.to_send ELSE <<>>} :
    \E got \in {IF r.res = "Ok" THEN r.commands ELSE <<>>} :
        /\ Len(pkts) > 0
        /\ AirHasRoom(n, sent)
        /\ nm' = [nm EXCEPT ![n] = r.m]
        /\ inbox' = Transmit([inbox EXCEPT ![n] =
                                 SubSeq(@, Len(pkts) + 1, Len(@))], n,
                             sent \o sent)
        /\ out' = [op |-> "receive", node |-> n, res |-> r.res, pkts |-> pkts,
                   to_send |-> sent, to_app |-> got, why |-> r.why]
        /\ app' = [app EXCEPT ![n] = Delivered(@, got)]
        /\ UNCHANGED <<topology, now>>

\* MeshRouter::receive with NodePolicy: the radio's batch goes through
\* process_packets, what is to be sent on is transmitted, the rest is handed
\* to the application
Receive(n) ==
    \E pkts \in {RadioReceive(inbox[n])} :
    \E r \in {HandlePackets(nm[n], pkts, now)} :
    \E sent \in {IF r.res = "Ok" THEN r.to_send ELSE <<>>} :
    \E got \in {IF r.res = "Ok" THEN r.commands ELSE <<>>} :
        /\ Len(pkts) > 0
        /\ AirHasRoom(n, sent)
        /\ nm' = [nm EXCEPT ![n] = r.m]
        /\ inbox' = Transmit([inbox EXCEPT ![n] =
                                 SubSeq(@, Len(pkts) + 1, Len(@))], n, sent)
        /\ out' = [op |-> "receive", node |-> n, res |-> r.res, pkts |-> pkts,
                   to_send |-> sent, to_app |-> got, why |-> r.why]
        /\ app' = [app EXCEPT ![n] = Delivered(@, got)]
        /\ UNCHANGED <<topology, now>>

\* MeshRouter::receive with GatewayPolicy: every frame heard is handed to
\* the application and what the policy answers is transmitted
GatewayReceive(n) ==
    \E pkts \in {RadioReceive(inbox[n])} :
    \E r \in {GatewayProcess(nm[n], pkts)} :
        /\ Len(pkts) > 0
        /\ AirHasRoom(n, r.to_send)
        /\ nm' = [nm EXCEPT ![n] = r.m]
        /\ inbox' = Transmit([inbox EXCEPT ![n] =
                                 SubSeq(@, Len(pkts) + 1, Len(@))], n,
                             r.to_send)
        /\ out' = [op |-> "gateway_receive", node |-> n, res |-> r.res,
                   pkts |-> pkts, to_send |-> r.to_send,
                   to_app |-> r.commands, why |-> r.why]
        /\ app' = [app EXCEPT ![n] = Delivered(@, r.commands)]
        /\ UNCHANGED <<topology, now>>

\* MeshRouter::send_payload in a build with overflow checks, when the
\* arithmetic of payload_to_send overflows: the thread panics
SendPayloadPanics(n, payload, destination) ==
    /\ PayloadToSendOverflows(nm[n], now)
    /\ out' = [op |-> "send_payload", node |-> n, res |-> "Panic",
               pkts |-> <<>>, to_send |-> <<>>, to_app |-> <<>>,
               why |-> <<>>]
    /\ UNCHANGED <<nm, inbox, topology, now, app>>

\* MeshRouter::send_payload when MHNode::transmit fails: payload_to_send has
\* run, nothing reaches the air, Err(MeshRouterError::Node) is returned
SendPayloadRadioError(n, payload, destination) ==
    \E r \in {PayloadToSend(nm[n], payload, destination, now)} :
        /\ r.res = "Ok"
        /\ nm' = [nm EXCEPT ![n] = r.m]
        /\ out' = [op |-> "send_payload", node |-> n, res |-> "RadioError",
                   pkts |-> <<>>, to_send |-> r.to_send, to_app |-> <<>>,
                   why |-> <<>>]
        /\ UNCHANGED <<inbox, topology, now, app>>

\* MeshRouter::receive when MHNode::receive fails: nothing was decoded and
\* process_packets is not reached
ReceiveRadioError(n) ==
    /\ out' = [op |-> "receive", node |-> n, res |-> "RadioError",
               pkts |-> <<>>, to_send |-> <<>>, to_app |-> <<>>,
               why |-> <<"radio_receive">>]
    /\ UNCHANGED <<nm, inbox, topology, now, app>>

\* MeshRouter::receive when the transmit of the outbound batch fails: the
\* batch went through process_packets, and the `?` on send_packets returns
\* the error in place of my_pkt
ReceiveTransmitError(n) ==
    \E pkts \in {RadioReceive(inbox[n])} :
    \E r \in {HandlePackets(nm[n], pkts, now)} :
        /\ Len(pkts) > 0
        /\ r.res = "Ok"
        /\ r.to_send # <<>>
        /\ nm' = [nm EXCEPT ![n] = r.m]
        /\ inbox' = [inbox EXCEPT ![n] = SubSeq(@, Len(pkts) + 1, Len(@))]
        /\ out' = [op |-> "receive", node |-> n, res |-> "RadioError",
                   pkts |-> pkts, to_send |-> r.to_send, to_app |-> <<>>,
                   why |-> Append(r.why, "radio_transmit")]
        /\ UNCHANGED <<topology, now, app>>

\* RecentSeen::push on the ring of node n; out.why keeps the pairs pushed so
\* far, oldest first
RingPush(n, pid) ==
    /\ nm' = [nm EXCEPT ![n].recent_seen = RecentSeenPush(@, pid)]
    /\ out' = [op |-> "push", node |-> n, res |-> "Ok", pkts |-> <<>>,
               to_send |-> <<>>, to_app |-> <<>>,
               why |-> Append(out.why, pid)]
    /\ UNCHANGED <<inbox, topology, now, app>>

\* NetworkManager::new_packet called on its own
NewPacketCall(n, payload, destination) ==
    /\ nm' = [nm EXCEPT ![n].next_packet_id = WrapU16(@ + 1)]
    /\ out' = [op |-> "new_packet", node |-> n, res |-> "Ok", pkts |-> <<>>,
               to_send |-> <<NewPacket(nm[n], payload, destination)>>,
               to_app |-> <<>>, why |-> <<>>]
    /\ UNCHANGED <<inbox, topology, now, app>>

\* MeshRouter::bootup: handle_bootup, then transmit the beacon
Bootup(n) ==
    /\ AirHasRoom(n, <<HandleBootup(nm[n])>>)
    /\ nm' = [nm EXCEPT ![n].next_packet_id = WrapU16(@ + 1)]
    /\ inbox' = Transmit(inbox, n, <<HandleBootup(nm[n])>>)
    /\ out' = [op |-> "bootup", node |-> n, res |-> "Ok", pkts |-> <<>>,
               to_send |-> <<HandleBootup(nm[n])>>, to_app |-> <<>>,
               why |-> <<>>]
    /\ UNCHANGED <<topology, now, app>>

\* the clock advances
Tick ==
    /\ now < MaxTime
    /\ now' = now + 1
    /\ out' = [op |-> "tick", node |-> 0, res |-> "Ok", pkts |-> <<>>,
               to_send |-> <<>>, to_app |-> <<>>, why |-> <<>>]
    /\ UNCHANGED <<nm, inbox, topology, app>>

\* ------------------------------------------------------------------------
\* Inputs
\* ------------------------------------------------------------------------
\* destinations and payloads the application hands to send_payload
Destinations == {GatewayId, NodeC}
Payloads == {<<1>>}

\* gateway distances a received frame advertises
HopValues == {1, UnknownHops}

\* beacons: the gateway's own, and a relay one hop out
BootUpFrames ==
    {MHPacket(BroadcastId, "BootUp", 1, GatewayId, <<>>, 0, 0),
     MHPacket(BroadcastId, "BootUp", 1, NodeC, <<0>>, 1, 1)}

\* Data frames of the other nodes: for this node, for the node beyond it,
\* and for the gateway from a sender at either distance
DataFrames ==
    {MHPacket(NodeB, "Data", 1, NodeA, <<1>>, 0, UnknownHops),
     MHPacket(NodeC, "Data", 1, NodeA, <<1>>, 0, UnknownHops)}
    \cup {MHPacket(GatewayId, "Data", 1, NodeC, <<1>>, 0, g) : g \in HopValues}

\* a copy of a frame this manager minted, as a forwarder re-emits it
EchoFrames == {MHPacket(NodeC, "Data", 1, Me, <<1>>, 0, UnknownHops)}

\* Ack frames of the other nodes: for this node, and one travelling between
\* two nodes beyond it
AckFrames ==
    {MHPacket(NodeB, "Ack", 1, NodeC, <<0>>, 0, UnknownHops),
     MHPacket(NodeD, "Ack", 1, NodeC, <<0>>, 0, UnknownHops)}

InFrames == BootUpFrames \cup DataFrames \cup EchoFrames \cup AckFrames

\* batches the radio hands over: one frame, or the same Data or BootUp frame
\* twice
InBatches ==
    {<<f>> : f \in InFrames} \cup {<<f, f>> : f \in DataFrames \cup BootUpFrames}

\* ------------------------------------------------------------------------
\* Specifications
\* ------------------------------------------------------------------------
\* One network manager receiving whatever the radio decodes, its application
\* sending now and then.
Init == InitWith(NoTopology)

Next ==
    \/ \E pkts \in InBatches : ProcessPackets(Me, pkts)
    \/ \E p \in Payloads :
          nm[Me].next_packet_id < MaxMint /\ SendPayload(Me, p, NodeC)
    \/ \E p \in Payloads :
          nm[Me].next_packet_id < MaxMint /\ NewPacketCall(Me, p, NodeC)
    \/ nm[Me].next_packet_id < MaxMint /\ Bootup(Me)

Spec == Init /\ [][Next]_vars

\* One network manager whose application keeps sending while the clock runs;
\* the only frames heard are acknowledgements of what it sent.
AckBatches ==
    {<<MHPacket(Me, "Ack", k, NodeC, <<0>>, 0, UnknownHops)>> : k \in 1..2}

NextSend ==
    \/ \E p \in Payloads, d \in Destinations :
          nm[Me].next_packet_id < MaxSends /\ SendPayload(Me, p, d)
    \/ \E pkts \in AckBatches : ProcessPackets(Me, pkts)
    \/ Tick

SpecSend == Init /\ [][NextSend]_vars

\* Two nodes in range of each other: the application of A sends to B, both
\* routers take receive turns, the clock runs.
InitPair == InitWith(Pair)

NextPair ==
    \/ \E p \in Payloads :
          nm[NodeA].next_packet_id < MaxNetSends /\ SendPayload(NodeA, p, NodeB)
    \/ \E n \in {NodeA, NodeB} : Receive(n)
    \/ Tick

SpecPair == InitPair /\ [][NextPair]_vars

\* The line A - B - C: the application of A sends one payload to C, every
\* router takes receive turns, and B retransmits what is due whenever its
\* own application sends.
InitLine == InitWith(Line)

NextLine ==
    \/ \E p \in Payloads :
          nm[NodeA].next_packet_id < 1 /\ SendPayload(NodeA, p, NodeC)
    \/ \E p \in Payloads, d \in {NodeA, NodeC} :
          nm[NodeB].next_packet_id < MaxNetSends /\ SendPayload(NodeB, p, d)
    \/ \E n \in Nodes : Receive(n)
    \/ Tick

SpecLine == InitLine /\ [][NextLine]_vars

\* The gateway: a router with GatewayPolicy whose manager has identity 1; it
\* announces itself, its application sends now and then, and it is handed
\* every batch of up to LEN frames the radio may decode.
GwFrames ==
    {MHPacket(GatewayId, "Data", 1, NodeC, <<1>>, 0, UnknownHops),
     MHPacket(GatewayId, "Data", 1, NodeB, <<1>>, 0, 1),
     MHPacket(GatewayId, "Ack", 1, NodeC, <<0>>, 0, UnknownHops),
     MHPacket(BroadcastId, "BootUp", 1, NodeB, <<0>>, 1, 1),
     MHPacket(NodeC, "Data", 1, GatewayId, <<1>>, 0, UnknownHops),
     MHPacket(GatewayId, "Data", 1, 0, <<1>>, 0, UnknownHops)}

RECURSIVE BatchesOf(_, _)
BatchesOf(frames, n) ==
    IF n = 0 THEN {<<>>}
    ELSE {<<>>} \cup {<<f>> \o b : f \in frames, b \in BatchesOf(frames, n - 1)}

GwBatches == BatchesOf(GwFrames, LEN) \ {<<>>}

NextGw ==
    \/ \E pkts \in GwBatches : GatewayProcessPackets(GatewayId, pkts)
    \/ nm[GatewayId].next_packet_id < MaxMint /\ Bootup(GatewayId)
    \/ \E p \in Payloads :
          nm[GatewayId].next_packet_id < MaxMint
             /\ SendPayload(GatewayId, p, NodeC)

SpecGw == Init /\ [][NextGw]_vars

\* Two nodes in range of each other over a radio whose transmit and receive
\* may fail.
NextRadio ==
    \/ NextPair
    \/ \E p \in Payloads :
          nm[NodeA].next_packet_id < MaxNetSends
             /\ SendPayloadRadioError(NodeA, p, NodeB)
    \/ \E n \in {NodeA, NodeB} : ReceiveRadioError(n)
    \/ \E n \in {NodeA, NodeB} : ReceiveTransmitError(n)

SpecRadio == InitPair /\ [][NextRadio]_vars

\* One node sends a payload to a node that never answers and, once the
\* clock has run out, keeps sending; a panic ends the run.
Running == out.res # "Panic"

NextWidth ==
    \/ \E p \in Payloads :
          /\ Running
          /\ nm[NodeA].next_packet_id < MaxCalls
          /\ nm[NodeA].pending_acks = <<>> \/ now = MaxTime
          /\ SendPayload(NodeA, p, NodeB)
    \/ \E p \in Payloads : Running /\ SendPayloadPanics(NodeA, p, NodeB)
    \/ Running /\ Tick

SpecWidth == Init /\ [][NextWidth]_vars

\* One manager whose application mints frames through every operation that
\* allocates an id, while beacons change its distance to the gateway.
NextMint ==
    \/ \E p \in Payloads :
          nm[Me].next_packet_id < MaxSends /\ NewPacketCall(Me, p, NodeC)
    \/ \E p \in Payloads :
          nm[Me].next_packet_id < MaxSends /\ SendPayload(Me, p, NodeC)
    \/ nm[Me].next_packet_id < MaxSends /\ Bootup(Me)
    \/ ProcessPackets(Me, <<HandleBootup(nm[GatewayId])>>)
    \/ Tick

SpecMint == Init /\ [][NextMint]_vars

\* A ring created by new() and a sequence of pushes.
RingPids == {<<s, k>> : s \in {NodeA, NodeC}, k \in 1..2}

NextRing ==
    \E pid \in RingPids : Len(out.why) < MaxPushes /\ RingPush(Me, pid)

SpecRing == Init /\ [][NextRing]_vars

\* One manager receiving mixed batches: a frame for itself and two frames
\* to send on; its application sends now and then.
OrderFrames ==
    {MHPacket(NodeB, "Data", 1, NodeA, <<1>>, 0, UnknownHops),
     MHPacket(NodeC, "Data", 2, NodeA, <<1>>, 0, UnknownHops),
     MHPacket(NodeC, "Data", 3, NodeA, <<1>>, 0, UnknownHops)}

\* batches of up to LEN frames, no frame twice in one batch
OrderBatches ==
    {b \in BatchesOf(OrderFrames, LEN) \ {<<>>} :
        \A i, j \in 1..Len(b) : i # j => b[i] # b[j]}

NextOrder ==
    \/ \E pkts \in OrderBatches : ProcessPackets(Me, pkts)
    \/ \E p \in Payloads :
          nm[Me].next_packet_id < MaxMint /\ SendPayload(Me, p, NodeC)

SpecOrder == Init /\ [][NextOrder]_vars

\* One manager on the path between nodes A and C, receiving one frame per
\* turn: Data frames of A, and an ACK of A on its way to C.
TransitFrames ==
    OrderFrames \cup {MHPacket(NodeC, "Ack", 4, NodeA, <<0>>, 0, UnknownHops)}

NextTransit ==
    \/ \E f \in TransitFrames : ProcessPackets(Me, <<f>>)
    \/ \E p \in Payloads :
          nm[Me].next_packet_id < MaxMint /\ SendPayload(Me, p, NodeC)

SpecTransit == Init /\ [][NextTransit]_vars

\* The line gateway - B - C: the gateway announces itself, the application
\* of C sends to the gateway, every router takes receive turns.
InitBeacon == InitWith(Line)

NextBeacon ==
    \/ nm[GatewayId].next_packet_id < MaxMint /\ Bootup(GatewayId)
    \/ \E p \in Payloads :
          nm[NodeC].next_packet_id < 1 /\ SendPayload(NodeC, p, GatewayId)
    \/ \E n \in Nodes \ {GatewayId} : Receive(n)
    \/ GatewayReceive(GatewayId)

SpecBeacon == InitBeacon /\ [][NextBeacon]_vars

\* every router keeps taking its receive turns
SpecBeaconFair ==
    /\ SpecBeacon
    /\ \A n \in Nodes \ {GatewayId} : WF_vars(Receive(n))
    /\ WF_vars(GatewayReceive(GatewayId))

\* Three nodes that all hear each other: the application of A sends one
\* payload more than a table holds to node D, which is not on the air, and
\* the routers that have a frame waiting, and room on the air for what they
\* send on, take their receive turns one after the other.
Mesh == [n \in Nodes |-> Nodes \ {n}]

InitMesh == InitWith(Mesh)

\* how many routers come before n in the round that starts after last
TurnsAfter(last, n) == (n - last - 1) % Cardinality(Nodes)

\* n is the next router in the round that can take a receive turn
Turn(n) ==
    \A k \in Nodes :
        ENABLED Receive(k) => TurnsAfter(out.node, n) <= TurnsAfter(out.node, k)

ReceiveInTurn(n) == Turn(n) /\ Receive(n)

NextMesh ==
    \/ \E p \in Payloads :
          nm[NodeA].next_packet_id < LEN + 1 /\ SendPayload(NodeA, p, NodeD)
    \/ \E n \in Nodes : ReceiveInTurn(n)

SpecMesh == InitMesh /\ [][NextMesh]_vars

\* every router takes its receive turn when it comes
SpecMeshFair == SpecMesh /\ \A n \in Nodes : WF_vars(ReceiveInTurn(n))

\* ------------------------------------------------------------------------
\* Properties
\* ------------------------------------------------------------------------
Range(s) == {s[i] : i \in 1..Len(s)}

\* the manager under test and what its operations answer in this state
Manager == nm[Me]
Received(f) == ReceivePacket(Manager, f, now)
Handled(pkts) == HandlePackets(Manager, pkts, now)

\* number of ACKs in batch that node n synthesized for frame f
AcksFor(batch, n, f) ==
    Cardinality({i \in 1..Len(batch) :
        /\ batch[i].packet_type = "Ack"
        /\ batch[i].source_id = n
        /\ batch[i].destination_id = f.source_id
        /\ batch[i].packet_id = f.packet_id})

Copies(batch, f) == Cardinality({i \in 1..Len(batch) : Pid(batch[i]) = Pid(f)})

\* pending entry p is acknowledged by frame f, as the claims word it
Acknowledges(p, f) ==
    /\ p.packet.packet_id = f.packet_id
    /\ \/ p.packet.source_id = f.source_id
       \/ f.packet_type = "Ack" /\ f.destination_id = p.packet.source_id

Matched(m, f) ==
    \E i \in 1..Len(m.pending_acks) : Acknowledges(m.pending_acks[i], f)

\* ---- C1 ----------------------------------------------------------------
\* what handle_packets answers when frame f arrives twice: in one batch, and
\* in two successive batches
TwiceInOne(f) == Handled(<<f, f>>)
TwiceFirst(f) == Handled(<<f>>)
TwiceSecond(f) == HandlePackets(TwiceFirst(f).m, <<f>>, now)

ExactlyOneAckNoSecondDelivery(f) ==
    /\ AcksFor(TwiceInOne(f).to_send, Me, f) = 1
    /\ Copies(TwiceInOne(f).commands, f) <= 1
    /\ AcksFor(TwiceFirst(f).to_send, Me, f)
         + AcksFor(TwiceSecond(f).to_send, Me, f) = 1
    /\ Copies(TwiceFirst(f).commands, f)
         + Copies(TwiceSecond(f).commands, f) <= 1

C2_KnownPacketRemoved ==
    \A f \in InFrames :
        (f.packet_type # "BootUp" /\ Matched(Manager, f)) =>
            /\ Received(f).res = "None"
            /\ \E k \in 1..Len(Manager.pending_acks) :
                  /\ Acknowledges(Manager.pending_acks[k], f)
                  /\ Received(f).m =
                       [Manager EXCEPT !.pending_acks =
                          [i \in 1..(Len(Manager.pending_acks) - 1) |->
                             IF i < k THEN Manager.pending_acks[i]
                             ELSE Manager.pending_acks[i + 1]]]
            /\ Handled(<<f>>).to_send = <<>>
            /\ Handled(<<f>>).commands = <<>>

\* an explicit Ack has just cleared the one pending entry of a forwarded frame
C2_Witness ==
    /\ out.op = "process_packets"
    /\ out.why = <<"known">>
    /\ out.to_send = <<>> /\ out.to_app = <<>>
    /\ Manager.pending_acks = <<>>
    /\ Manager.next_packet_id = 0
    /\ RecentSeenContains(Manager.recent_seen, <<NodeA, 1>>)

\* ---- C6 ----------------------------------------------------------------
FirstSeenGatewayBound(f) ==
    /\ f.destination_id = GatewayId
    /\ f.destination_id # Manager.source_id
    /\ f.packet_type # "BootUp"
    /\ ~Matched(Manager, f)
    /\ ~RecentSeenContains(Manager.recent_seen, Pid(f))

ForwardedWithOurHops(f) ==
    /\ Received(f).res = "Some" /\ Received(f).ptype = "Data"
    /\ Received(f).pkt = [f EXCEPT !.hop_to_gw = Manager.gw_hops]
    /\ Received(f).m.pending_acks =
         Append(Manager.pending_acks,
                [packet |-> [f EXCEPT !.hop_to_gw = Manager.gw_hops],
                 timeout |-> now + Manager.timeout, retries |-> 0])
    /\ Handled(<<f>>).to_send = <<[f EXCEPT !.hop_to_gw = Manager.gw_hops]>>

DroppedWithoutEntry(f) ==
    /\ Received(f).res # "Some"
    /\ Received(f).m.pending_acks = Manager.pending_acks
    /\ Handled(<<f>>).to_send = <<>>
    /\ Handled(<<f>>).commands = <<>>

\* C6 as stated: a first-seen gateway-bound frame is forwarded iff
\* gw_hops < hop_to_gw; forwarded, it carries the forwarder's gw_hops and has
\* a pending entry; otherwise it is dropped and no entry is created.
C6_Original ==
    [][(/\ out'.op = "process_packets"
        /\ Len(out'.pkts) = 1
        /\ FirstSeenGatewayBound(out'.pkts[1]))
       => IF Manager.gw_hops < out'.pkts[1].hop_to_gw
          THEN /\ out'.to_send =
                    <<[out'.pkts[1] EXCEPT !.hop_to_gw = Manager.gw_hops]>>
               /\ Len(Manager'.pending_acks) = Len(Manager.pending_acks) + 1
               /\ Manager'.pending_acks[Len(Manager'.pending_acks)].packet
                    = out'.to_send[1]
          ELSE /\ out'.to_send = <<>>
               /\ Manager'.pending_acks = Manager.pending_acks]_vars

\* C6 amended: a first-seen gateway-bound frame is forwarded iff
\* gw_hops < hop_to_gw and the pending table has room; forwarded, it carries
\* hop_to_gw = the forwarder's gw_hops and has a pending entry; otherwise
\* (not closer, or table full) it is dropped and no entry is created.
C6_ForwardIffCloserAndRoom ==
    \A f \in InFrames :
        FirstSeenGatewayBound(f) =>
            IF Manager.gw_hops < f.hop_to_gw
               /\ Len(Manager.pending_acks) < LEN
            THEN ForwardedWithOurHops(f) ELSE DroppedWithoutEntry(f)

\* a gateway-bound frame of node C has just been forwarded with our distance
C6_Witness ==
    /\ out.op = "process_packets"
    /\ out.why = <<"forward">>
    /\ Len(out.to_send) = 1
    /\ out.to_send[1].destination_id = GatewayId
    /\ out.to_send[1].source_id = NodeC
    /\ out.to_send[1].hop_to_gw = Manager.gw_hops
    /\ Manager.gw_hops < UnknownHops
    /\ \E i \in 1..Len(Manager.pending_acks) :
          Manager.pending_acks[i].packet = out.to_send[1]

\* ---- C7 ----------------------------------------------------------------
\* C7 as stated: for a BootUp frame, gw_hops does not grow, a relay is
\* emitted iff gw_hops became strictly smaller, and a beacon with
\* hop_count >= gw_hops is dropped with no state change.
C7_RelayIffImproved ==
    [][(/\ out'.op = "process_packets"
        /\ Len(out'.pkts) = 1
        /\ out'.pkts[1].packet_type = "BootUp")
       => /\ Manager'.gw_hops <= Manager.gw_hops
          /\ (out'.to_send # <<>>) <=> (Manager'.gw_hops < Manager.gw_hops)
          /\ out'.pkts[1].hop_count >= Manager.gw_hops
               => Manager' = Manager /\ out'.to_send = <<>>]_vars

\* ---- C8 ----------------------------------------------------------------
\* C8: gw_hops starts at 255 and no operation increases it; it changes only
\* in a call that processed an accepted BootUp frame.
C8_GwHopsMonotone ==
    /\ \A n \in Nodes : nm[n].gw_hops = UnknownHops
    /\ [][\A n \in Nodes :
            /\ nm'[n].gw_hops <= nm[n].gw_hops
            /\ nm'[n].gw_hops # nm[n].gw_hops
                 => /\ out'.op \in {"process_packets", "receive"}
                    /\ out'.node = n
                    /\ "bootup" \in Range(out'.why)]_vars

\* the distance was learnt from a beacon and survived a send_payload
C8_Witness ==
    /\ Manager.gw_hops = 1
    /\ out.op = "send_payload"

\* ---- C3, C4, C5: payload_to_send ---------------------------------------
\* the pending table as garbage collection leaves it
AfterGc(m, curr_time) ==
    LET Keep(p) == RetainPending(m, p, curr_time)
    IN  SelectSeq(m.pending_acks, Keep)

\* the frame the call minted is in the returned batch
NewFrameIn(batch, m) ==
    \E i \in 1..Len(batch) :
        /\ batch[i].source_id = m.source_id
        /\ batch[i].packet_id = m.next_packet_id
        /\ batch[i].packet_type = "Data"

\* C3 as stated: every send_payload that returns Ok has the newly minted
\* frame in its batch, and leaves the pending table one entry longer than
\* garbage collection left it, the new entry holding the new frame with
\* retries = 0 and deadline = now + timeout_secs.
C3_SendAddsOneEntry ==
    [][(out'.op = "send_payload" /\ out'.res = "Ok")
       => /\ NewFrameIn(out'.to_send, Manager')
          /\ Len(Manager'.pending_acks) = Len(AfterGc(Manager, now)) + 1
          /\ LET last == Manager'.pending_acks[Len(Manager'.pending_acks)]
             IN  /\ last.packet = out'.to_send[Len(out'.to_send)]
                 /\ last.retries = 0
                 /\ last.timeout = now + Manager.timeout]_vars

\* C4 as stated: a frame is retransmitted at most max_retries times, and the
\* send_payload call that finds its entry with retries >= max_retries and the
\* deadline passed (the 5th call for max_retries = 3) removes the entry
\* instead of retransmitting it.
C4_RetryBudget ==
    [][out'.op = "send_payload"
       => /\ \A i \in 1..Len(Manager'.pending_acks) :
                Manager'.pending_acks[i].retries <= Manager.max_retries
          /\ \A i \in 1..Len(Manager.pending_acks) :
                (/\ Manager.pending_acks[i].retries >= Manager.max_retries
                 /\ Manager.pending_acks[i].timeout < now)
                => /\ \A j \in 1..Len(Manager'.pending_acks) :
                         Manager'.pending_acks[j].packet
                            # Manager.pending_acks[i].packet
                   /\ Manager.pending_acks[i].packet
                         \notin Range(out'.to_send)]_vars

\* C5 as stated: send_payload returns BufferFull exactly when the pending
\* table is full after garbage collection, and in every other case succeeds
\* with the new frame in the batch it returns.
C5_BufferFullIffTableFull ==
    [][out'.op = "send_payload"
       => /\ (out'.res = "BufferFull")
               <=> (Len(AfterGc(Manager, now)) >= LEN)
          /\ out'.res # "BufferFull"
               => out'.res = "Ok" /\ NewFrameIn(out'.to_send, Manager')]_vars

\* ---- C9: the line A - B - C ---------------------------------------------
\* the frame A mints for its payload to C
LineFrame == MHPacket(NodeC, "Data", 1, NodeA, <<1>>, 0, UnknownHops)

HoldsEntryFor(m, f) ==
    \E i \in 1..Len(m.pending_acks) : m.pending_acks[i].packet = f

FromAToB(f) ==
    /\ f.packet_type = "Data"
    /\ f.source_id = NodeA
    /\ f.destination_id = NodeB

\* an Ack of B addressed to A
AckFromBToA(f) ==
    /\ f.packet_type = "Ack"
    /\ f.source_id = NodeB
    /\ f.destination_id = NodeA

\* C10 as stated: A's send leaves one pending entry, and B's receive of the
\* frame hands exactly that frame to B's application and synthesizes an ACK
\* (which, once A has received it, empties A's table).
C10_Original ==
    [][/\ (/\ out'.op = "send_payload" /\ out'.node = NodeA
           /\ out'.res = "Ok" /\ nm[NodeA].pending_acks = <<>>)
          => Len(nm'[NodeA].pending_acks) = 1
       /\ (/\ out'.op = "receive" /\ out'.node = NodeB
           /\ Len(out'.pkts) = 1
           /\ FromAToB(out'.pkts[1])
           /\ Pid(out'.pkts[1]) \notin app[NodeB].once)
          => /\ out'.to_app = out'.pkts
             /\ AcksFor(out'.to_send, NodeB, out'.pkts[1]) = 1]_vars

\* C10 amended: A's send from an empty table leaves one pending entry; B's
\* receive hands a frame of A it sees for the first time to its application
\* exactly once and synthesizes no ACK for that copy; every further copy B
\* receives (a retransmission by A) is answered by one ACK and not handed
\* over again; A's entry for a frame stays in the table until A receives a
\* frame that acknowledges it, and after A has received B's ACK for it the
\* entry is gone.
C10_AckOnRetransmission ==
    [][/\ (/\ out'.op = "send_payload" /\ out'.node = NodeA
           /\ out'.res = "Ok" /\ nm[NodeA].pending_acks = <<>>)
          => Len(nm'[NodeA].pending_acks) = 1
       /\ (out'.op = "receive" /\ out'.node = NodeB)
          => \A f \in Range(out'.pkts) :
                (FromAToB(f) /\ ~Matched(nm[NodeB], f)) =>
                   (IF ~RecentSeenContains(nm[NodeB].recent_seen, Pid(f))
                   THEN /\ Copies(out'.to_app, f) = 1
                        /\ AcksFor(out'.to_send, NodeB, f)
                             = Copies(out'.pkts, f) - 1
                   ELSE (nm'[NodeB].recent_seen = nm[NodeB].recent_seen)
                        => (/\ Copies(out'.to_app, f) = 0
                            /\ AcksFor(out'.to_send, NodeB, f)
                                 = Copies(out'.pkts, f)))
       /\ \A i \in 1..Len(nm[NodeA].pending_acks) :
             (~HoldsEntryFor(nm'[NodeA], nm[NodeA].pending_acks[i].packet))
             => (/\ out'.op = "receive" /\ out'.node = NodeA
                 /\ \E a \in Range(out'.pkts) :
                       Acknowledges(nm[NodeA].pending_acks[i], a))
       /\ (out'.op = "receive" /\ out'.node = NodeA)
          => \A a \in Range(out'.pkts) :
                AckFromBToA(a) =>
                   \A i \in 1..Len(nm'[NodeA].pending_acks) :
                       \/ nm'[NodeA].pending_acks[i].packet.packet_id
                            # a.packet_id
                       \/ nm'[NodeA].pending_acks[i].packet.source_id
                            # NodeA]_vars

\* B was handed A's first frame, ACKed its retransmission, and A has just
\* received that ACK and dropped the entry
C10_Witness ==
    /\ out.op = "receive" /\ out.node = NodeA
    /\ \E a \in Range(out.pkts) : AckFromBToA(a) /\ a.packet_id = 1
    /\ <<NodeA, 1>> \in app[NodeB].once
    /\ <<NodeA, 1>> \notin app[NodeB].again
    /\ \A i \in 1..Len(nm[NodeA].pending_acks) :
          nm[NodeA].pending_acks[i].packet.packet_id # 1

\* ---- C11: FIFO batch --------------------------------------------------
NoneDue(m, curr_time) ==
    \A i \in 1..Len(m.pending_acks) : ~TimedOut(m.pending_acks[i], curr_time)

\* the frames A minted first, second, ..., in that order
InSendOrder(pkts) ==
    \A i \in 1..Len(pkts) : FromAToB(pkts[i]) /\ pkts[i].packet_id = i

\* C11: while no deadline has passed and the table has room, each
\* send_payload of A to B emits the new frame alone and makes A's pending
\* count one larger; B's first receive of the k <= LEN frames sent so far
\* returns them all as to_app, in the order A sent them, emits nothing and
\* leaves B's pending table empty.
C11_FifoBatch ==
    [][/\ (/\ out'.op = "send_payload" /\ out'.node = NodeA
           /\ NoneDue(nm[NodeA], now)
           /\ Len(nm[NodeA].pending_acks) < LEN)
          => /\ out'.res = "Ok"
             /\ Len(out'.to_send) = 1
             /\ Len(nm'[NodeA].pending_acks)
                  = Len(nm[NodeA].pending_acks) + 1
             /\ inbox'[NodeB] = Append(inbox[NodeB], out'.to_send[1])
       /\ (/\ out'.op = "receive" /\ out'.node = NodeB
           /\ nm[NodeB] = NetworkManagerNew(NodeB, TimeoutSecs, MaxRetries)
           /\ InSendOrder(inbox[NodeB])
           /\ Len(inbox[NodeB]) <= LEN)
          => /\ out'.pkts = inbox[NodeB]
             /\ out'.to_app = inbox[NodeB]
             /\ out'.to_send = <<>>
             /\ nm'[NodeB].pending_acks = <<>>]_vars

\* A sent LEN payloads before B's first receive, which handed all of them
\* over in order
C11_Witness ==
    /\ out.op = "receive" /\ out.node = NodeB
    /\ Len(out.to_app) = LEN
    /\ InSendOrder(out.to_app)
    /\ Len(nm[NodeA].pending_acks) = LEN
    /\ nm[NodeB].pending_acks = <<>>
    /\ app[NodeB].again = {}

\* ---- C12: order of the batch of payload_to_send ------------------------
\* the frames of the entries of m whose deadline has passed, in table order
DueFrames(m, curr_time) ==
    LET Due(p) == TimedOut(p, curr_time)
        due == SelectSeq(AfterGc(m, curr_time), Due)
    IN  [i \in 1..Len(due) |-> due[i].packet]

\* C12 as stated: every batch payload_to_send returns holds the due
\* retransmissions first, in pending-table order, and the newly minted
\* frame as its last element.
C12_RetransmissionsThenNew ==
    [][(out'.op = "send_payload" /\ out'.res = "Ok")
       => /\ Len(out'.to_send) = Len(DueFrames(Manager, now)) + 1
          /\ SubSeq(out'.to_send, 1, Len(out'.to_send) - 1)
               = DueFrames(Manager, now)
          /\ out'.to_send[Len(out'.to_send)]
               = NewPacket(Manager, <<1>>, out'.to_send[Len(out'.to_send)].destination_id)]_vars

\* ---- C13, C14, C15: the gateway policy ---------------------------------
Gateway == nm[GatewayId]

\* number of Acks in batch addressed to the source of f with its packet_id
GwAcksFor(batch, f) ==
    Cardinality({i \in 1..Len(batch) :
        /\ batch[i].packet_type = "Ack"
        /\ batch[i].destination_id = f.source_id
        /\ batch[i].packet_id = f.packet_id})

\* number of non-Ack frames in batch with the (source_id, packet_id) of f
NonAckCopies(batch, f) ==
    Cardinality({i \in 1..Len(batch) :
        batch[i].packet_type # "Ack" /\ Pid(batch[i]) = Pid(f)})

\* C13 as stated: when the gateway is handed a batch with several copies of
\* one non-Ack frame, to_send holds exactly one ACK for it and to_app holds
\* every copy.
C13_Original ==
    [][out'.op = "gateway_process_packets"
       => \A f \in Range(out'.pkts) :
             (f.packet_type # "Ack" /\ NonAckCopies(out'.pkts, f) > 1)
             => /\ GwAcksFor(out'.to_send, f) = 1
                /\ NonAckCopies(out'.to_app, f)
                     = NonAckCopies(out'.pkts, f)]_vars

\* C13 amended: when the gateway is handed a batch with several copies of
\* one non-Ack frame (source_id not 0), to_send holds one ACK for every
\* copy and to_app holds every copy.
C13_OneAckPerCopy ==
    [][out'.op = "gateway_process_packets"
       => \A f \in Range(out'.pkts) :
             (f.packet_type # "Ack" /\ f.source_id # 0)
             => /\ GwAcksFor(out'.to_send, f) = NonAckCopies(out'.pkts, f)
                /\ NonAckCopies(out'.to_app, f)
                     = NonAckCopies(out'.pkts, f)]_vars

\* the gateway was handed LEN copies of one Data frame and ACKed each
C13_Witness ==
    /\ out.op = "gateway_process_packets"
    /\ Len(out.pkts) = LEN
    /\ \A i \in 1..LEN : out.pkts[i] = out.pkts[1]
    /\ out.pkts[1].packet_type = "Data"
    /\ GwAcksFor(out.to_send, out.pkts[1]) = LEN
    /\ out.to_app = out.pkts

\* C14: GatewayPolicy::process_packets returns the batch it was handed as
\* to_app (every frame, Acks and duplicates included, in the same order) and
\* leaves the manager (pending table, next_packet_id, recent_seen, gw_hops)
\* as it was.
C14_BatchToAppManagerUntouched ==
    [][out'.op = "gateway_process_packets"
       => /\ out'.to_app = out'.pkts
          /\ nm' = nm]_vars

\* a gateway that had sent a payload was handed an Ack followed by a Data
\* frame, and its application got both
C14_Witness ==
    /\ out.op = "gateway_process_packets"
    /\ Len(out.pkts) = 2
    /\ out.pkts[1].packet_type = "Ack"
    /\ out.pkts[2].packet_type = "Data"
    /\ out.to_app = out.pkts
    /\ Len(Gateway.pending_acks) = 1
    /\ Gateway.next_packet_id = 1

\* what identifies an Ack: its type, whom it is for and which frame it names
AckKey(pkt) == <<pkt.packet_type, pkt.destination_id, pkt.packet_id>>

\* C15 as stated: the gateway emits an Ack for exactly the frames of the
\* batch that are neither Acks nor sourced by the gateway itself, each Ack
\* addressed to the frame's source with the frame's packet_id, in batch
\* order.
C15_AcksForForeignFrames ==
    [][out'.op = "gateway_process_packets"
       => LET Foreign(pkt) == /\ pkt.packet_type # "Ack"
                              /\ pkt.source_id # Gateway.source_id
              acked == SelectSeq(out'.pkts, Foreign)
          IN  [i \in 1..Len(out'.to_send) |-> AckKey(out'.to_send[i])]
                = [i \in 1..Len(acked) |->
                     <<"Ack", acked[i].source_id, acked[i].packet_id>>]]_vars

\* ---- C16: only send_payload retransmits --------------------------------
\* frame e is what handle_packets emits for frame g of the batch: the frame
\* itself with the node's hop_to_gw, an ACK for it, or the relay of a beacon
AnswerTo(m, e, g) ==
    \/ [e EXCEPT !.hop_to_gw = 0] = [g EXCEPT !.hop_to_gw = 0]
    \/ [e EXCEPT !.hop_to_gw = 0] = [AckFor(m, g) EXCEPT !.hop_to_gw = 0]
    \/ [e EXCEPT !.hop_to_gw = 0] = [BootUpRelay(m, g) EXCEPT !.hop_to_gw = 0]

\* C16: a receive turn emits only answers to frames of its batch (a forward,
\* an ACK, a beacon relay), emits nothing for a batch it consumes silently,
\* and leaves every pending entry it keeps with the retries and deadline it
\* had (an entry it adds has retries = 0 and a fresh deadline); so a node
\* that never called send_payload holds only entries with retries = 0.
C16_OnlySendRetransmits ==
    /\ [](\A n \in Nodes :
            nm[n].next_packet_id = 0
            => \A i \in 1..Len(nm[n].pending_acks) :
                  nm[n].pending_acks[i].retries = 0)
    /\ [][out'.op = "receive"
          => /\ \A i \in 1..Len(out'.to_send) :
                   \E g \in Range(out'.pkts) :
                      AnswerTo(nm[out'.node], out'.to_send[i], g)
             /\ Len(out'.to_send) <= Len(out'.pkts)
             /\ \A e \in Range(nm'[out'.node].pending_acks) :
                   \/ e \in Range(nm[out'.node].pending_acks)
                   \/ /\ e.retries = 0
                      /\ e.timeout = now + nm[out'.node].timeout
                      /\ \E g \in Range(out'.pkts) :
                            AnswerTo(nm[out'.node], e.packet, g)]_vars

\* B, holding a due entry already retransmitted once, took a receive turn
\* that emitted nothing and left the entry as it was
C16_Witness ==
    /\ out.op = "receive" /\ out.node = NodeB
    /\ out.to_send = <<>>
    /\ \E i \in 1..Len(nm[NodeB].pending_acks) :
          /\ nm[NodeB].pending_acks[i].retries >= 1
          /\ TimedOut(nm[NodeB].pending_acks[i], now)

\* ---- C17: transmit fails inside send_payload ---------------------------
\* the call handed a batch to the radio
BatchMade(o) == o.op = "send_payload" /\ o.res \in {"Ok", "RadioError"}

\* C17 as stated: after a send_payload whose transmit failed, the entry of
\* the new frame is in the pending table and the next send_payload call has
\* that frame in its batch.
C17_Original ==
    [][(/\ out.op = "send_payload" /\ out.res = "RadioError"
        /\ NewFrameIn(out.to_send, nm[out.node])
        /\ BatchMade(out') /\ out'.node = out.node)
       => /\ HoldsEntryFor(nm[out.node], out.to_send[Len(out.to_send)])
          /\ out.to_send[Len(out.to_send)] \in Range(out'.to_send)]_vars

\* C17 amended: a send_payload whose transmit failed returns the radio
\* error and puts nothing on the air, and when its batch had room for the
\* new frame the frame's entry (retries = 0, deadline = now + timeout) is in
\* the pending table; a later send_payload call that makes a batch resends
\* the frame of an entry exactly when the entry's deadline has passed
\* (deadline < now), so the call after a failed transmit resends the frame
\* only if it is made after the deadline.
C17_ResentOnceDue ==
    [][/\ (out'.op = "send_payload" /\ out'.res = "RadioError")
          => /\ inbox' = inbox
             /\ NewFrameIn(out'.to_send, nm'[out'.node])
                => LET m == nm'[out'.node]
                       last == m.pending_acks[Len(m.pending_acks)]
                   IN  /\ last.packet = out'.to_send[Len(out'.to_send)]
                       /\ last.retries = 0
                       /\ last.timeout = now + m.timeout
       /\ BatchMade(out')
          => \A i \in 1..Len(nm[out'.node].pending_acks) :
                LET e == nm[out'.node].pending_acks[i]
                IN  (e.packet \in Range(out'.to_send)) <=> (e.timeout < now)]_vars

\* the transmit of A's first frame failed (B has heard nothing else), and a
\* send_payload made after the deadline has put it on the air with a new one
C17_Witness ==
    /\ out.op = "send_payload" /\ out.res = "Ok" /\ out.node = NodeA
    /\ Len(out.to_send) = 2
    /\ out.to_send[1].packet_id = 1
    /\ inbox[NodeB] = out.to_send
    /\ nm[NodeB] = NetworkManagerNew(NodeB, TimeoutSecs, MaxRetries)
    /\ nm[NodeA].pending_acks[1].retries = 1

\* ---- C18: MeshRouter::receive fails -------------------------------------
\* C18 as stated: when receive returns a radio error the manager is as it
\* was before the call, so that a frame of the turn addressed to this node
\* is still first-seen when it is handled again.
C18_ManagerUnchangedOnError ==
    [][(out'.op = "receive" /\ out'.res = "RadioError")
       => nm' = nm]_vars

\* ---- C19: integer widths ------------------------------------------------
\* C19 as stated: no sequence of manager operations panics, and the u8
\* retries counter of a pending entry never overflows (it never comes out
\* of a call smaller than it went in).
C19_NoPanicNoOverflow ==
    /\ [](out.res # "Panic")
    /\ [][out'.op = "send_payload"
          => \A i \in 1..Len(nm[out'.node].pending_acks) :
                (/\ i <= Len(nm'[out'.node].pending_acks)
                 /\ nm'[out'.node].pending_acks[i].packet
                       = nm[out'.node].pending_acks[i].packet)
                => nm'[out'.node].pending_acks[i].retries
                      >= nm[out'.node].pending_acks[i].retries]_vars

\* ---- C20: node-to-node forwarding --------------------------------------
FirstSeenPeerBound(f) ==
    /\ f.destination_id # GatewayId
    /\ f.destination_id # Manager.source_id
    /\ f.packet_type # "BootUp"
    /\ ~Matched(Manager, f)
    /\ ~RecentSeenContains(Manager.recent_seen, Pid(f))

InBetween(f) ==
    /\ Min(f.source_id, f.destination_id) <= Manager.source_id
    /\ Manager.source_id <= Max(f.source_id, f.destination_id)

\* C20 as stated: a first-seen frame for another node that is not
\* gateway-bound is forwarded iff this node's id lies between the frame's
\* source and destination; forwarded, it is emitted with the fields it was
\* received with and has a pending entry; otherwise it is dropped and no
\* entry is created.
C20_Original ==
    [][(/\ out'.op = "process_packets"
        /\ Len(out'.pkts) = 1
        /\ FirstSeenPeerBound(out'.pkts[1]))
       => IF InBetween(out'.pkts[1])
          THEN /\ out'.to_send = out'.pkts
               /\ Len(Manager'.pending_acks) = Len(Manager.pending_acks) + 1
               /\ Manager'.pending_acks[Len(Manager'.pending_acks)].packet
                    = out'.pkts[1]
          ELSE /\ out'.to_send = <<>>
               /\ Manager'.pending_acks = Manager.pending_acks]_vars

\* C20 amended: a first-seen frame for another node that is not
\* gateway-bound is forwarded iff this node's id lies between the frame's
\* source and destination and the pending table has room; forwarded, it is
\* emitted with the fields it was received with except hop_to_gw, which is
\* the forwarder's gw_hops, and has a pending entry; otherwise (not on the
\* path, or table full) it is dropped and no entry is created.
C20_ForwardIffBetweenAndRoom ==
    \A f \in InFrames :
        FirstSeenPeerBound(f) =>
            IF InBetween(f) /\ Len(Manager.pending_acks) < LEN
            THEN ForwardedWithOurHops(f) ELSE DroppedWithoutEntry(f)

\* the frame of node A for node C has just been forwarded, by a node whose
\* gw_hops is not the hop_to_gw the frame came with
C20_Witness ==
    /\ out.op = "process_packets"
    /\ out.why = <<"forward">>
    /\ Len(out.to_send) = 1 /\ Len(out.pkts) = 1
    /\ out.pkts[1].source_id = NodeA /\ out.pkts[1].destination_id = NodeC
    /\ out.to_send[1] = [out.pkts[1] EXCEPT !.hop_to_gw = Manager.gw_hops]
    /\ out.to_send[1] # out.pkts[1]
    /\ Manager.pending_acks[Len(Manager.pending_acks)].packet = out.to_send[1]

\* ---- C21: a frame for this node ------------------------------------------
FirstSeenForUs(f) ==
    /\ f.destination_id = Manager.source_id
    /\ f.packet_type # "BootUp"
    /\ ~Matched(Manager, f)
    /\ ~RecentSeenContains(Manager.recent_seen, Pid(f))

\* C21: a first-seen non-BootUp frame addressed to this node that matches no
\* pending entry is handed to the application as it was received (Command
\* disposition); nothing is emitted for it and the pending table stays as
\* it was.
C21_DeliveredUnchanged ==
    \A f \in InFrames :
        FirstSeenForUs(f) =>
            /\ Received(f).res = "Some" /\ Received(f).ptype = "Command"
            /\ Received(f).pkt = f
            /\ Received(f).m.pending_acks = Manager.pending_acks
            /\ Handled(<<f>>).res = "Ok"
            /\ Handled(<<f>>).commands = <<f>>
            /\ Handled(<<f>>).to_send = <<>>
            /\ Handled(<<f>>).m.pending_acks = Manager.pending_acks

\* a frame of node A for this node has just been handed to the application,
\* with an entry waiting in the pending table
C21_Witness ==
    /\ out.op = "process_packets" /\ out.res = "Ok"
    /\ out.why = <<"for_us">>
    /\ out.to_app = out.pkts /\ out.to_send = <<>>
    /\ out.pkts[1].destination_id = Me
    /\ Len(Manager.pending_acks) = 1

\* ---- C22: packet ids ------------------------------------------------------
Minting(o) ==
    /\ o.node = Me
    /\ o.op \in {"new_packet", "bootup", "send_payload"}
    /\ o.res # "Panic"

\* C22: a manager starts with no id allocated; every call of new_packet,
\* payload_to_send or handle_bootup allocates the previous id + 1 (so the
\* first is 1) and a frame it mints carries that id; a minted Data frame
\* has the manager's source_id, hop_count = 0 and hop_to_gw = the manager's
\* gw_hops at that moment; every other frame of a send batch is an older
\* one, with a smaller id.
C22_MintedIdsSucceed ==
    /\ [](out.op = "new" => Manager.next_packet_id = 0)
    /\ [][Minting(out')
          => /\ Manager.next_packet_id < U16Max
                => Manager'.next_packet_id = Manager.next_packet_id + 1
             /\ out'.op \in {"new_packet", "bootup"}
                => /\ Len(out'.to_send) = 1
                   /\ out'.to_send[1].packet_id = Manager'.next_packet_id
                   /\ out'.to_send[1].source_id = Manager.source_id
                   /\ out'.to_send[1].hop_count = 0
             /\ out'.op = "new_packet"
                => /\ out'.to_send[1].packet_type = "Data"
                   /\ out'.to_send[1].hop_to_gw = Manager.gw_hops
             /\ \A i \in 1..Len(out'.to_send) :
                   \/ out'.to_send[i].packet_id < Manager'.next_packet_id
                   \/ /\ i = Len(out'.to_send)
                      /\ out'.to_send[i].packet_id = Manager'.next_packet_id
                      /\ out'.to_send[i].source_id = Manager.source_id
                      /\ out'.to_send[i].hop_count = 0
                      /\ out'.op = "send_payload"
                         => /\ out'.to_send[i].packet_type = "Data"
                            /\ out'.to_send[i].hop_to_gw = Manager.gw_hops]_vars

\* the third id or a later one has just been given to a Data frame, by a
\* manager that knows its distance to the gateway
C22_Witness ==
    /\ out.op = "new_packet"
    /\ out.to_send[1].packet_id >= 3
    /\ out.to_send[1].packet_id = Manager.next_packet_id
    /\ out.to_send[1].hop_to_gw = Manager.gw_hops
    /\ Manager.gw_hops < UnknownHops

\* ---- C23: RecentSeen ------------------------------------------------------
\* the last n elements of a sequence
LastOf(s, n) == {s[i] : i \in {j \in 1..Len(s) : j > Len(s) - n}}

\* C23: a fresh ring contains nothing; after any sequence of pushes,
\* contains(p) is true iff p is one of the last N pushed pairs, and the
\* cursor is the number of pushes modulo N.
C23_ContainsLastN ==
    /\ \A p \in RingPids :
          RecentSeenContains(Manager.recent_seen, p) <=> p \in LastOf(out.why, LEN)
    /\ Manager.recent_seen.cursor = Len(out.why) % LEN

\* more than N pairs were pushed and the first one has been overwritten
C23_Witness ==
    /\ out.op = "push"
    /\ Len(out.why) > LEN
    /\ ~RecentSeenContains(Manager.recent_seen, out.why[1])
    /\ RecentSeenContains(Manager.recent_seen, out.why[Len(out.why)])

\* ---- C24: garbage collection ---------------------------------------------
Expired(m, p, curr_time) == p.retries >= m.max_retries /\ p.timeout < curr_time

Survivors(m, curr_time) ==
    LET Keep(p) == ~Expired(m, p, curr_time)
    IN  SelectSeq(m.pending_acks, Keep)

PastDeadline(entries, curr_time) ==
    LET Late(p) == p.timeout < curr_time
        late == SelectSeq(entries, Late)
    IN  [i \in 1..Len(late) |-> late[i].packet]

\* C25: in a call of payload_to_send every entry that survives garbage
\* collection keeps its frame and its deadline; its retries grow by exactly
\* one when its deadline < now and stay as they were otherwise; the batch of
\* a call that returns one starts with the frames of the entries past their
\* deadline, in table order, and holds nothing else but the new frame.
C25_DueEntriesResent ==
    [][(out'.op = "send_payload" /\ out'.res # "Panic" /\ out'.node = Me)
       => LET kept == AfterGc(Manager, now)
              after == Manager'.pending_acks
              late == PastDeadline(kept, now)
          IN  /\ Len(after) >= Len(kept)
              /\ \A i \in 1..Len(kept) :
                    /\ after[i].packet = kept[i].packet
                    /\ after[i].timeout = kept[i].timeout
                    /\ after[i].retries =
                          IF kept[i].timeout < now
                          THEN kept[i].retries + 1 ELSE kept[i].retries
              /\ out'.res = "Ok"
                 => /\ Len(out'.to_send) >= Len(late)
                    /\ Len(out'.to_send) <= Len(late) + 1
                    /\ SubSeq(out'.to_send, 1, Len(late)) = late]_vars

\* a batch has just gone out with one retransmission and the new frame; the
\* retransmitted entry was bumped, its deadline is still the old one
C25_Witness ==
    /\ out.op = "send_payload" /\ out.res = "Ok" /\ out.node = Me
    /\ Len(out.to_send) = 2
    /\ Len(Manager.pending_acks) = 2
    /\ Manager.pending_acks[1].packet = out.to_send[1]
    /\ Manager.pending_acks[1].retries = 1
    /\ Manager.pending_acks[1].timeout < now
    /\ Manager.pending_acks[2].packet = out.to_send[2]
    /\ Manager.pending_acks[2].retries = 0

\* ---- C26: no ACK of an ACK -----------------------------------------------
\* frame e of an outbound batch is the received frame g sent on
CopyOf(e, g) == [e EXCEPT !.hop_to_gw = 0] = [g EXCEPT !.hop_to_gw = 0]

\* every Ack frame of the outbound batch is a received Ack frame sent on, or
\* acknowledges a received frame that is not an Ack
NoAckOfAck(to_send, pkts) ==
    \A i \in 1..Len(to_send) :
        to_send[i].packet_type = "Ack"
        => \/ \E g \in Range(pkts) : CopyOf(to_send[i], g)
           \/ \E g \in Range(pkts) :
                 /\ g.packet_type # "Ack"
                 /\ to_send[i].destination_id = g.source_id
                 /\ to_send[i].packet_id = g.packet_id

\* C26: whatever the node has received before, neither handle_packets nor
\* the gateway policy answers a batch with an Ack frame made for a received
\* Ack frame.  (The gateway policy reads no state, so its answers are
\* examined once, for a fresh gateway.)
C26_NoAckForAck ==
    /\ [][out'.op = "process_packets"
          => NoAckOfAck(out'.to_send, out'.pkts)]_vars
    /\ [](out.op = "new"
          => \A pkts \in GwBatches :
                NoAckOfAck(GatewayProcess(Gateway, pkts).to_send, pkts))

\* an Ack frame seen before has arrived again and was dropped in silence
C26_Witness ==
    /\ out.op = "process_packets"
    /\ Len(out.pkts) = 1 /\ out.pkts[1].packet_type = "Ack"
    /\ out.why = <<"ack_of_ack">>
    /\ out.to_send = <<>> /\ out.to_app = <<>>

\* ---- C27: beacon relay ---------------------------------------------------
\* C27: for a BootUp beacon that receive_packet accepts (hop_count <
\* gw_hops), handle_packets emits one relay frame: broadcast destination,
\* this node as source, type BootUp, the beacon's packet_id, hop_count one
\* larger than the beacon's, and hop_to_gw = this node's gw_hops after the
\* update (the beacon's hop_count + 1).
C27_RelayFields ==
    \A f \in BootUpFrames :
        f.hop_count < Manager.gw_hops
        => /\ Handled(<<f>>).res = "Ok"
           /\ Handled(<<f>>).commands = <<>>
           /\ Len(Handled(<<f>>).to_send) = 1
           /\ Handled(<<f>>).m.gw_hops = f.hop_count + 1
           /\ LET relay == Handled(<<f>>).to_send[1]
              IN  /\ relay.destination_id = BroadcastId
                  /\ relay.source_id = Manager.source_id
                  /\ relay.packet_type = "BootUp"
                  /\ relay.packet_id = f.packet_id
                  /\ relay.hop_count = f.hop_count + 1
                  /\ relay.hop_to_gw = Handled(<<f>>).m.gw_hops

\* the relay of node C, one hop out, has just been relayed two hops out
C27_Witness ==
    /\ out.op = "process_packets"
    /\ out.why = <<"bootup">>
    /\ Len(out.pkts) = 1 /\ Len(out.to_send) = 1
    /\ out.pkts[1].source_id = NodeC /\ out.pkts[1].hop_count = 1
    /\ out.to_send[1].source_id = Me /\ out.to_send[1].hop_count = 2
    /\ out.to_send[1].hop_to_gw = 2 /\ Manager.gw_hops = 2

\* ---- C28: order of the outbound batch ------------------------------------
\* made by this node: an ACK or a beacon relay
Synthesized(e) == e.source_id = Me /\ e.packet_type \in {"Ack", "BootUp"}

\* batch outs answers, frame by frame and in the same order, some of the
\* frames of batch ins
InArrivalOrder(outs, ins, Answers(_, _)) ==
    \E idx \in [1..Len(outs) -> 1..Len(ins)] :
        /\ \A a, b \in 1..Len(outs) : a < b => idx[a] < idx[b]
        /\ \A a \in 1..Len(outs) : Answers(outs[a], ins[idx[a]])

\* C28 as stated: in the to_send of handle_packets the frames sent on come
\* first, in arrival order, and the ACKs and beacon relays made by the node
\* come after them.
C28_Original ==
    [][out'.op = "process_packets"
       => \A a, b \in 1..Len(out'.to_send) :
             (/\ a < b
              /\ Synthesized(out'.to_send[a]))
             => Synthesized(out'.to_send[b])]_vars

\* C28 amended: handle_packets processes the frames of a batch in arrival
\* order and appends what each one produces as it goes: to_send lists the
\* frames sent on, the ACKs and the beacon relays interleaved, each at the
\* rank of the received frame it answers, and to_app lists the frames for
\* the application in arrival order.
C28_OutputsInArrivalOrder ==
    [][out'.op = "process_packets"
       => LET Answers(e, g) == AnswerTo(Manager', e, g)
              Same(e, g) == e = g
          IN  /\ InArrivalOrder(out'.to_send, out'.pkts, Answers)
              /\ InArrivalOrder(out'.to_app, out'.pkts, Same)]_vars

\* an ACK for a duplicate stands before a frame sent on that arrived after it
C28_Witness ==
    /\ out.op = "process_packets" /\ out.res = "Ok"
    /\ out.why = <<"duplicate", "forward">>
    /\ Len(out.to_send) = 2
    /\ out.to_send[1] = AckFor(Manager, out.pkts[1])
    /\ CopyOf(out.to_send[2], out.pkts[2])

\* ---- C30: a frame that fails inside a batch --------------------------------
\* what handle_packets answers for the first i frames of a batch
UpTo(pkts, i) == HandlePackets(Manager, SubSeq(pkts, 1, i), now)

\* receive_packet fails on frame i of the batch
FailsAt(pkts, i) ==
    ReceivePacket(UpTo(pkts, i - 1).m, pkts[i], now).res = "BufferFull"

\* what the frames after frame i produce, handled on their own by the
\* manager as receive_packet left it at frame i
AfterFailure(pkts, i) ==
    HandlePackets(ReceivePacket(UpTo(pkts, i - 1).m, pkts[i], now).m,
                  SubSeq(pkts, i + 1, Len(pkts)), now)

\* C30: when receive_packet fails on a frame of a batch, handle_packets
\* still returns Ok and its two lists are what the frames before it
\* produced followed by what the frames after it produce when handled
\* without it; the failing frame adds nothing and no pending entry.
C30_SkipsOnlyTheFailingFrame ==
    [][out'.op = "process_packets"
       => \A i \in 1..Len(out'.pkts) :
             FailsAt(out'.pkts, i)
             => /\ out'.res = "Ok"
                /\ out'.to_send = UpTo(out'.pkts, i - 1).to_send
                                     \o AfterFailure(out'.pkts, i).to_send
                /\ out'.to_app = UpTo(out'.pkts, i - 1).commands
                                    \o AfterFailure(out'.pkts, i).commands
                /\ ~HoldsEntryFor(Manager', out'.pkts[i])]_vars

\* a frame to send on met a full table, and the frame for this node that
\* came after it in the batch was handed to the application
C30_Witness ==
    /\ out.op = "process_packets" /\ out.res = "Ok"
    /\ out.why = <<"table_full", "for_us">>
    /\ out.to_send = <<>>
    /\ out.to_app = <<out.pkts[2]>>
    /\ Len(Manager.pending_acks) = LEN

HeldBefore(n, e) ==
    \E i \in 1..Len(nm[n].pending_acks) :
        /\ nm[n].pending_acks[i].packet = e.packet
        /\ nm[n].pending_acks[i].timeout = e.timeout

\* C31: a manager starts with an empty pending table, and every entry that
\* an operation adds to a table holds a frame of the outgoing batch that
\* this operation returned; so every pending entry's frame was in an
\* outgoing batch of payload_to_send or handle_packets.
C31_EntriesWereEmitted ==
    /\ [](out.op = "new" => \A n \in Nodes : nm[n].pending_acks = <<>>)
    /\ [][\A n \in Nodes :
            \A i \in 1..Len(nm'[n].pending_acks) :
               \/ HeldBefore(n, nm'[n].pending_acks[i])
               \/ /\ out'.node = n
                  /\ out'.op \in {"send_payload", "receive"}
                  /\ out'.res = "Ok"
                  /\ nm'[n].pending_acks[i].packet \in Range(out'.to_send)]_vars

\* node B holds two entries: one for a frame it sent on, one for a frame of
\* its own, the second added by the batch that has just gone out
C31_Witness ==
    /\ out.op = "send_payload" /\ out.res = "Ok" /\ out.node = NodeB
    /\ Len(nm[NodeB].pending_acks) = 2
    /\ nm[NodeB].pending_acks[1].packet.source_id = NodeA
    /\ nm[NodeB].pending_acks[2].packet.source_id = NodeB
    /\ nm[NodeB].pending_acks[2].packet \in Range(out.to_send)

\* ---- C32: what the pending table holds -------------------------------------
\* C32 as stated: every pending entry holds a frame of type Data.
C32_OnlyDataPending ==
    \A n \in Nodes :
        \A i \in 1..Len(nm[n].pending_acks) :
            nm[n].pending_acks[i].packet.packet_type = "Data"

\* the nodes within k hops of the gateway
RECURSIVE WithinHops(_)
WithinHops(k) ==
    IF k = 0 THEN {GatewayId}
    ELSE WithinHops(k - 1) \cup UNION {topology[n] : n \in WithinHops(k - 1)}

\* the shortest hop distance of node n to the gateway
Distance(n) ==
    CHOOSE k \in 0..Cardinality(Nodes) :
        /\ n \in WithinHops(k)
        /\ \A j \in 0..(k - 1) : n \notin WithinHops(j)

BeaconSent == nm[GatewayId].next_packet_id > 0

Converged == \A n \in Nodes \ {GatewayId} : nm[n].gw_hops = Distance(n)

\* C33: once the gateway has sent its beacon and every router keeps taking
\* receive turns, every node's gw_hops comes to equal its shortest hop
\* distance to the gateway, and it is at no time smaller than that distance.
C33_BeaconConvergence ==
    /\ [](\A n \in Nodes \ {GatewayId} : nm[n].gw_hops >= Distance(n))
    /\ (BeaconSent ~> Converged)

C33_Witness ==
    /\ BeaconSent
    /\ Converged
    /\ nm[NodeC].gw_hops = 2
    /\ out.op = "receive"
    /\ out.node = NodeC
    /\ \E i \in 1..Len(out.pkts) :
          /\ out.pkts[i].packet_type = "BootUp"
          /\ out.pkts[i].hop_count = 1

\* C34: a receive turn never makes a node send on a frame it minted itself:
\* every frame of its own that the node holds an entry for after the turn,
\* it held before the turn.
C34_NeverForwardsOwnFrame ==
    [][out'.op = "receive" =>
         \A i \in 1..Len(nm'[out'.node].pending_acks) :
            nm'[out'.node].pending_acks[i].packet.source_id = out'.node
               => HeldBefore(out'.node, nm'[out'.node].pending_acks[i])]_vars

\* C35: a node emits a synthesized ACK for a frame only if it handed a frame
\* with that (source_id, packet_id) to its application or sent it on before.
\* Stated for the first batch a manager is handed after construction, where
\* "before" can only be earlier in the same batch: every ACK of the outgoing
\* batch answers a frame that the same call delivered or sent on.
C35_AckOnlyAfterDeliveryOrForward ==
    [][(out.op = "new" /\ out'.op = "process_packets")
         => \A i \in 1..Len(out'.to_send) :
               (out'.to_send[i].packet_type = "Ack"
                  /\ out'.to_send[i].source_id = out'.node)
               => LET key == <<out'.to_send[i].destination_id,
                               out'.to_send[i].packet_id>>
                  IN  \/ \E j \in 1..Len(out'.to_app) :
                            Pid(out'.to_app[j]) = key
                      \/ \E j \in 1..Len(out'.to_send) :
                            /\ Pid(out'.to_send[j]) = key
                            /\ out'.to_send[j].packet_type # "Ack"]_vars

\* the frames a step emitted with the emitting node as their source
OwnEmitted(o) ==
    IF o.res = "Ok"
    THEN {o.to_send[i] : i \in {j \in 1..Len(o.to_send) :
                                   o.to_send[j].source_id = o.node}}
    ELSE {}

\* C36: (source_id, packet_id) identifies one message: any two frames a
\* manager emits with its own id as source and the same packet_id have the
\* same packet_type, destination_id and payload.  Stated for the frames of
\* two batches the manager emits one after the other.
C36_OwnKeyIdentifiesOneMessage ==
    [][out.node = out'.node
         => \A e \in OwnEmitted(out), g \in OwnEmitted(out') :
               e.packet_id = g.packet_id
                  => /\ e.packet_type = g.packet_type
                     /\ e.destination_id = g.destination_id
                     /\ e.payload = g.payload]_vars

\* C37: every frame a receive turn hands to the application is a Data frame.
C37_OnlyDataToApp ==
    [][out'.op = "process_packets"
         => \A i \in 1..Len(out'.to_app) :
               out'.to_app[i].packet_type = "Data"]_vars

\* C38: when send_payload fails with BufferFull, the manager is as it was
\* before the call: no entry added, removed or retried, and next_packet_id
\* not advanced.
C38_BufferFullLeavesStateAlone ==
    [][(out'.op = "send_payload" /\ out'.res = "BufferFull")
         => nm'[out'.node] = nm[out'.node]]_vars

\* no frame is waiting to be processed, so no receive turn can transmit
Quiet == \A n \in Nodes : inbox[n] = <<>>

\* C39: no broadcast storm: the applications send a bounded number of times
\* and every router keeps taking receive turns; the network then comes to
\* rest with every inbox empty.
C39_NoBroadcastStorm == <>[]Quiet

\* on the mesh some router can always take a turn while a frame is waiting
MeshNeverStuck == Quiet \/ ENABLED NextMesh

====
